---- MODULE Spec2Model ----
(***************************************************************************)
(* Model of backend/app/main.py: the four read-only query handlers of the  *)
(* NBA Betting API (/games, /players/agg, /players/gamelogs,               *)
(* /players/search) and the liveness route "/".  Each handler assembles a  *)
(* SQL text with named placeholders and a bound-parameter map, borrows a   *)
(* connection from the engine, executes the one statement and maps the     *)
(* rows.  The statement is evaluated here clause by clause against small   *)
(* tables, from the assembled text and the bound parameters.               *)
(***************************************************************************)
EXTENDS Integers, Sequences, FiniteSets, TLC

VARIABLES
    stats,      \* rows of table player_statistics (owned by the database)
    pc,         \* position of the request being served
    req,        \* the request: route and query parameters
    sql,        \* the assembled statement: route template and WHERE clauses
    params,     \* the bound-parameter map handed to conn.execute
    held,       \* connections currently checked out of the engine
    acquired,   \* connections the current request has acquired so far
    queries,    \* statements the current request has executed so far
    matched,    \* rows of the FROM table that satisfy the WHERE clause
    ranked,     \* the rows in the order the database's ORDER BY produced
    rows,       \* what conn.execute(...).mappings() yields
    result,     \* the handler's return value (or the propagated error)
    prevPage    \* the previous /players/gamelogs page of a paging client

vars == <<stats, pc, req, sql, params, held, acquired, queries, matched,
          ranked, rows, result, prevPage>>

----------------------------------------------------------------------------
\* Bounds of the model.
MaxLimit == 2
MaxOffset == 2
MaxLastN == 4
MaxQLen == 2

\* Optional[...] query parameters: None, or a one-element tuple.
None == <<>>
Some(v) == <<v>>

\* Python truthiness as used by "if not team_id", "if team_id" (int).
TruthyInt(o) == o # None /\ o[1] # 0

\* Python truthiness as used by "if team_name", "if opponent" (str).
TruthyStr(o) == o # None /\ o[1] # ""

Min(a, b) == IF a <= b THEN a ELSE b

\* A calendar date as the database compares it.
MkDate(y, m, d) == y * 10000 + m * 100 + d

\* f"{season}-10-01": the text sent for :start (year, month, day fields).
SeasonStartText(season) == <<season, 10, 1>>

\* f"{season+1}-07-01": the text sent for :end.
SeasonEndText_SameYear(season) == <<season, 7, 1>>
SeasonEndText(season) == <<season + 1, 7, 1>>

\* The database's coercion of a 'Y-MM-DD' text parameter to a date.
ParseDate(t) == MkDate(t[1], t[2], t[3])

----------------------------------------------------------------------------
\* Tables.

\* Table games.
Games == {
    [game_id |-> 1, game_date |-> MkDate(2023, 9, 30), game_type |-> "Preseason",
     home_team_id |-> 10, home_team_name |-> "Nuggets",
     away_team_id |-> 20, away_team_name |-> "Lakers"],
    [game_id |-> 2, game_date |-> MkDate(2023, 10, 1), game_type |-> "Regular Season",
     home_team_id |-> 20, home_team_name |-> "Lakers",
     away_team_id |-> 10, away_team_name |-> "Nuggets"],
    [game_id |-> 3, game_date |-> MkDate(2024, 6, 30), game_type |-> "Playoffs",
     home_team_id |-> 10, home_team_name |-> "Nuggets",
     away_team_id |-> 30, away_team_name |-> "Warriors"],
    [game_id |-> 4, game_date |-> MkDate(2024, 7, 1), game_type |-> "Playoffs",
     home_team_id |-> 30, home_team_name |-> "Warriors",
     away_team_id |-> 20, away_team_name |-> "Lakers"],
    [game_id |-> 5, game_date |-> MkDate(2024, 10, 1), game_type |-> "Regular Season",
     home_team_id |-> 20, home_team_name |-> "Lakers",
     away_team_id |-> 30, away_team_name |-> "Warriors"] }

\* Table players (person_id is its key).
Players == {
    [person_id |-> 1, first_name |-> <<"S", "t", "e", "p", "h">>,
                      last_name  |-> <<"C", "u", "r", "r", "y">>],
    [person_id |-> 2, first_name |-> <<"S", "e", "t", "h">>,
                      last_name  |-> <<"C", "u", "r", "r", "y">>],
    [person_id |-> 3, first_name |-> <<"C", "o", "r", "y">>,
                      last_name  |-> <<"J", "o", "e">>],
    [person_id |-> 4, first_name |-> <<"L", "u", "k", "a">>,
                      last_name  |-> <<"D", "o", "n", "c", "i", "c">>] }

StatRow(gid, pid, y, m, d, pts, ast, reb, hm, opp, gt) ==
    [game_id |-> gid, person_id |-> pid, game_date |-> MkDate(y, m, d),
     points |-> pts, assists |-> ast, rebounds_total |-> reb,
     home |-> hm, opponent_team_name |-> opp, game_type |-> gt,
     player_team_name |-> "Warriors"]

\* Rows of player_statistics present in every database considered.
BaseStats == {
    StatRow(2, 1, 2023, 10, 1, 10, 5, 4, FALSE, "Lakers", "Regular Season"),
    StatRow(6, 1, 2023, 11, 5, 20, 7, 6, TRUE, "Nuggets", "Regular Season"),
    StatRow(3, 1, 2024, 6, 30, 30, 9, 2, TRUE, "Lakers", "Playoffs"),
    StatRow(4, 1, 2024, 7, 1, 40, 1, 1, FALSE, "Lakers", "Playoffs"),
    StatRow(5, 2, 2024, 10, 1, 10, 2, 3, TRUE, "Lakers", "Regular Season"),
    StatRow(9, 2, 2024, 11, 1, 20, 4, 1, FALSE, "Nuggets", "Regular Season"),
    StatRow(10, 2, 2024, 12, 1, 30, 0, 6, TRUE, "Lakers", "Regular Season"),
    StatRow(8, 9, 2023, 12, 25, 50, 0, 0, TRUE, "Lakers", "Regular Season") }

\* Rows that a database may or may not hold (a second row of player 1 dated
\* 2023-11-05).
OptionalStats == {
    StatRow(7, 1, 2023, 11, 5, 0, 3, 8, FALSE, "Lakers", "Playoffs") }

AggPersonIds == {1, 2, 3, 9}
LogPersonIds == {1, 2}
TeamIds == {0, 10, 20}
TeamNames == {"", "Lakers", "Nuggets"}
Seasons == {2023, 2024}
GameTypes == {"", "Playoffs"}
Opponents == {"", "Lakers"}

Opt(S) == {None} \cup {Some(v) : v \in S}

----------------------------------------------------------------------------
\* SQL text fragments (the strings appended to where / wh).
TidClause == "(home_team_id = :tid OR away_team_id = :tid)"
TnameClause == "(home_team_name = :tname OR away_team_name = :tname)"
SeasonClause == "game_date >= :start AND game_date < :end"
PidClause == "ps.person_id = :pid"
PsSeasonClause == "ps.game_date >= :start AND ps.game_date < :end"
OppClause == "ps.opponent_team_name = :opp"
HomeClause == "ps.home = :home"
GtClause == "ps.game_type = :gt"

\* The named placeholders that occur in a WHERE fragment.
ClausePlaceholders(c) ==
    CASE c = TidClause -> {"tid"}
      [] c = TnameClause -> {"tname"}
      [] c = SeasonClause -> {"start", "end"}
      [] c = PidClause -> {"pid"}
      [] c = PsSeasonClause -> {"start", "end"}
      [] c = OppClause -> {"opp"}
      [] c = HomeClause -> {"home"}
      [] c = GtClause -> {"gt"}

\* The named placeholders of a route's statement outside its WHERE list.
TemplatePlaceholders(route) ==
    CASE route = "games" -> {"limit"}
      [] route = "agg" -> {"n"}
      [] route = "gamelogs" -> {"limit", "offset"}
      [] route = "search" -> {"q", "limit"}

\* All named placeholders of an assembled statement.
Placeholders(s) ==
    TemplatePlaceholders(s.route)
        \cup UNION {ClausePlaceholders(s.where[i]) : i \in DOMAIN s.where}

EmptyMap == [k \in {} |-> 0]

NoSql == [route |-> "none", where |-> <<>>]

\* "if not team_id and not team_name": the request is rejected.
GamesInvalid_NeedsNoSeason(r) ==
    ~TruthyInt(r.team_id) /\ ~TruthyStr(r.team_name) /\ r.season = None
GamesInvalid(r) == ~TruthyInt(r.team_id) /\ ~TruthyStr(r.team_name)

\* get_games: the where list.
GamesWhere(r) ==
    (IF TruthyInt(r.team_id) THEN <<TidClause>> ELSE <<>>)
    \o (IF TruthyStr(r.team_name) THEN <<TnameClause>> ELSE <<>>)
    \o (IF r.season # None THEN <<SeasonClause>> ELSE <<>>)

\* get_games: the params dict.
GamesParams(r) ==
    ("limit" :> r.limit)
    @@ (IF TruthyInt(r.team_id) THEN "tid" :> r.team_id[1] ELSE EmptyMap)
    @@ (IF TruthyStr(r.team_name) THEN "tname" :> r.team_name[1] ELSE EmptyMap)
    @@ (IF r.season # None
        THEN ("start" :> SeasonStartText(r.season[1]))
             @@ ("end" :> SeasonEndText(r.season[1]))
        ELSE EmptyMap)

\* player_agg: WHERE ps.person_id = :pid {season_clause}.
AggWhere(r) ==
    <<PidClause>> \o (IF r.season # None THEN <<PsSeasonClause>> ELSE <<>>)

\* player_agg: the params dict.
AggParams_NoEnd(r) ==
    ("pid" :> r.person_id) @@ ("n" :> r.last_n)
    @@ (IF r.season # None
        THEN ("start" :> SeasonStartText(r.season[1])) ELSE EmptyMap)
AggParams(r) ==
    ("pid" :> r.person_id) @@ ("n" :> r.last_n)
    @@ (IF r.season # None
        THEN ("start" :> SeasonStartText(r.season[1]))
             @@ ("end" :> SeasonEndText(r.season[1]))
        ELSE EmptyMap)

\* player_gamelogs: the wh list.
LogsWhere_HomeTruthy(r) ==
    <<PidClause>>
    \o (IF r.season # None THEN <<PsSeasonClause>> ELSE <<>>)
    \o (IF TruthyStr(r.opponent) THEN <<OppClause>> ELSE <<>>)
    \o (IF r.home = Some(TRUE) THEN <<HomeClause>> ELSE <<>>)
    \o (IF TruthyStr(r.game_type) THEN <<GtClause>> ELSE <<>>)
LogsWhere(r) ==
    <<PidClause>>
    \o (IF r.season # None THEN <<PsSeasonClause>> ELSE <<>>)
    \o (IF TruthyStr(r.opponent) THEN <<OppClause>> ELSE <<>>)
    \o (IF r.home # None THEN <<HomeClause>> ELSE <<>>)
    \o (IF TruthyStr(r.game_type) THEN <<GtClause>> ELSE <<>>)

\* player_gamelogs: the params dict.
LogsParams(r) ==
    ("pid" :> r.person_id) @@ ("limit" :> r.limit) @@ ("offset" :> r.offset)
    @@ (IF r.season # None
        THEN ("start" :> SeasonStartText(r.season[1]))
             @@ ("end" :> SeasonEndText(r.season[1]))
        ELSE EmptyMap)
    @@ (IF TruthyStr(r.opponent) THEN "opp" :> r.opponent[1] ELSE EmptyMap)
    @@ (IF r.home # None THEN "home" :> r.home[1] ELSE EmptyMap)
    @@ (IF TruthyStr(r.game_type) THEN "gt" :> r.game_type[1] ELSE EmptyMap)

\* players_search: {"q": f"%{q}%", "limit": limit}.
SearchParams(r) == ("q" :> (<<"%">> \o r.q \o <<"%">>)) @@ ("limit" :> r.limit)

----------------------------------------------------------------------------
\* Evaluation of the statement by the database.

\* (home_team_id = :tid OR away_team_id = :tid)
MatchTid_HomeOnly(row, tid) == row.home_team_id = tid
MatchTid(row, tid) == row.home_team_id = tid \/ row.away_team_id = tid

\* (home_team_name = :tname OR away_team_name = :tname)
MatchTname(row, tname) == row.home_team_name = tname \/ row.away_team_name = tname

\* game_date >= :start AND game_date < :end
InWindow(row, start, end) ==
    row.game_date >= ParseDate(start) /\ row.game_date < ParseDate(end)

\* One WHERE fragment on one row under the bound parameters p.
EvalClause(c, row, p) ==
    CASE c = TidClause -> MatchTid(row, p["tid"])
      [] c = TnameClause -> MatchTname(row, p["tname"])
      [] c = SeasonClause -> InWindow(row, p["start"], p["end"])
      [] c = PidClause -> row.person_id = p["pid"]
      [] c = PsSeasonClause -> InWindow(row, p["start"], p["end"])
      [] c = OppClause -> row.opponent_team_name = p["opp"]
      [] c = HomeClause -> row.home = p["home"]
      [] c = GtClause -> row.game_type = p["gt"]

\* WHERE {' AND '.join(where)} over a table.
Matches(tbl, where, p) ==
    {row \in tbl : \A i \in DOMAIN where : EvalClause(where[i], row, p)}

\* first_name || ' ' || last_name
FullName(pl) == pl.first_name \o <<" ">> \o pl.last_name

\* FROM player_statistics ps JOIN players p ON p.person_id = ps.person_id
Joined(st) ==
    {x[1] @@ ("player_name" :> FullName(x[2])) :
        x \in {y \in st \X Players : y[2].person_id = y[1].person_id}}

\* ORDER BY game_date DESC: every order of the rows the sort may produce
\* (rows of equal game_date come out in either order).
RECURSIVE OrderingsDesc(_)
OrderingsDesc(S) ==
    IF S = {} THEN {<<>>}
    ELSE UNION {{<<r>> \o t : t \in OrderingsDesc(S \ {r})} :
                r \in {x \in S : \A y \in S : x.game_date >= y.game_date}}

RECURSIVE OrderingsAsc(_)
OrderingsAsc(S) ==
    IF S = {} THEN {<<>>}
    ELSE UNION {{<<r>> \o t : t \in OrderingsAsc(S \ {r})} :
                r \in {x \in S : \A y \in S : x.game_date <= y.game_date}}

\* ROW_NUMBER() OVER (PARTITION BY ps.person_id ORDER BY ps.game_date DESC)
RankOrders_Asc(S) == OrderingsAsc(S)
RankOrders(S) == OrderingsDesc(S)

\* LIMIT :limit OFFSET :offset
Page(s, offset, limit) == SubSeq(s, offset + 1, Min(offset + limit, Len(s)))

----------------------------------------------------------------------------
\* Text comparison in the database.

\* Case folding of ILIKE.
Lower(c) ==
    CASE c = "C" -> "c" [] c = "D" -> "d" [] c = "J" -> "j" [] c = "L" -> "l"
      [] c = "S" -> "s" [] c = "U" -> "u" [] c = "R" -> "r" [] c = "Y" -> "y"
      [] OTHER -> c

\* text ILIKE pattern: '%' matches any run of characters, '_' any one
\* character, any other character itself without regard to case.
RECURSIVE ILike(_, _)
ILike(str, pat) ==
    IF pat = <<>> THEN str = <<>>
    ELSE IF Head(pat) = "%"
         THEN ILike(str, Tail(pat)) \/ (str # <<>> /\ ILike(Tail(str), pat))
    ELSE IF Head(pat) = "_"
         THEN str # <<>> /\ ILike(Tail(str), Tail(pat))
    ELSE str # <<>> /\ Lower(Head(str)) = Lower(Head(pat))
         /\ ILike(Tail(str), Tail(pat))

\* Character order of the names' collation.
Collation == <<" ", "C", "D", "J", "L", "S", "a", "c", "e", "h", "i", "k",
               "n", "o", "p", "r", "t", "u", "y">>

CharRank(c) == CHOOSE i \in DOMAIN Collation : Collation[i] = c

RECURSIVE TextLE(_, _)
TextLE(a, b) ==
    IF a = <<>> THEN TRUE
    ELSE IF b = <<>> THEN FALSE
    ELSE IF Head(a) = Head(b) THEN TextLE(Tail(a), Tail(b))
    ELSE CharRank(Head(a)) < CharRank(Head(b))

\* ORDER BY player_name: every order the sort may produce.
RECURSIVE NameOrderings(_)
NameOrderings(S) ==
    IF S = {} THEN {<<>>}
    ELSE UNION {{<<r>> \o t : t \in NameOrderings(S \ {r})} :
                r \in {x \in S : \A y \in S : TextLE(x.player_name, y.player_name)}}

----------------------------------------------------------------------------
\* Result rows.

\* SELECT list of get_games.
GameRecord(g) ==
    [game_id |-> g.game_id, game_date |-> g.game_date, game_type |-> g.game_type,
     home_team_name |-> g.home_team_name, away_team_name |-> g.away_team_name]

\* SELECT list of player_gamelogs; pra is derived at query time.
LogRecord(s) ==
    [game_id |-> s.game_id, game_date |-> s.game_date, team |-> s.player_team_name,
     opp |-> s.opponent_team_name, is_home |-> s.home, game_type |-> s.game_type,
     points |-> s.points, assists |-> s.assists, rebounds |-> s.rebounds_total,
     pra |-> s.points + s.assists + s.rebounds_total]

\* SELECT list of players_search.
SearchRecord(pl) == [person_id |-> pl.person_id, player_name |-> FullName(pl)]

MapSeq(s, F(_)) == [i \in DOMAIN s |-> F(s[i])]

RECURSIVE SumIdx(_, _)
SumIdx(vals, I) ==
    IF I = {} THEN 0
    ELSE LET i == CHOOSE j \in I : TRUE IN vals[i] + SumIdx(vals, I \ {i})

\* AVG(col) over the rows at the indexes I: NULL (None) over no rows, else
\* the exact quotient sum/count, kept as the pair <<sum, count>>.
Avg(vals, I) == IF I = {} THEN None ELSE <<SumIdx(vals, I), Cardinality(I)>>

Pra(s) == s.points + s.assists + s.rebounds_total

\* The one row of the aggregate SELECT ... FROM ranked (no GROUP BY: one row
\* whatever ranked holds).  rk is ranked in rn order, rn = index.
AggRow(rk, n) ==
    LET all == DOMAIN rk
        recent == {rn \in all : rn <= n}
        pts == [i \in all |-> rk[i].points]
        reb == [i \in all |-> rk[i].rebounds_total]
        ast == [i \in all |-> rk[i].assists]
        pra == [i \in all |-> Pra(rk[i])]
    IN  [player_name |->
            IF all = {} THEN None
            ELSE Some(rk[CHOOSE x \in all :
                         \A y \in all : TextLE(rk[y].player_name, rk[x].player_name)
                        ].player_name),
         last_n_pts |-> Avg(pts, recent), last_n_reb |-> Avg(reb, recent),
         last_n_ast |-> Avg(ast, recent), last_n_pra |-> Avg(pra, recent),
         season_pts |-> Avg(pts, all), season_reb |-> Avg(reb, all),
         season_ast |-> Avg(ast, all), season_pra |-> Avg(pra, all)]

\* .mappings().first() then "dict(row) if row else {}": a RowMapping is
\* falsy only when it has no keys.
AggReturn(rws) ==
    IF rws # <<>> /\ DOMAIN rws[1] # {} THEN rws[1] ELSE EmptyMap

----------------------------------------------------------------------------
\* Inputs.
Limits == 0..MaxLimit
Offsets == 0..MaxOffset
LastNs == 0..MaxLastN
QAlphabet == {"c", "U", "r", "_", "%"}
Queries ==
    UNION {[1..k -> QAlphabet] : k \in 0..MaxQLen}
    \cup {<<"c", "u", "r", "r", "y">>, <<"C", "U", "R", "R", "Y">>}

NoResult == [kind |-> "none"]
ServerError == [kind |-> "server_error"]

Init ==
    /\ stats \in {BaseStats \cup o : o \in SUBSET OptionalStats}
    /\ pc = "idle"
    /\ req = [route |-> "none"]
    /\ sql = NoSql
    /\ params = EmptyMap
    /\ held = 0
    /\ acquired = 0
    /\ queries = 0
    /\ matched = {}
    /\ ranked = <<>>
    /\ rows = <<>>
    /\ result = NoResult
    /\ prevPage = None

\* A request arrives: the handler runs from its first line.
Arrive(r, from) ==
    /\ pc = from
    /\ req' = r
    /\ acquired' = 0
    /\ queries' = 0
    /\ matched' = {}
    /\ ranked' = <<>>
    /\ rows' = <<>>
    /\ UNCHANGED <<stats, held>>

\* The handler has assembled its statement and reaches "with engine.connect()".
Built(s, p) ==
    /\ sql' = s
    /\ params' = p
    /\ result' = NoResult
    /\ pc' = "built"

\* The handler returns without touching the database.
ReturnNow(v) ==
    /\ sql' = NoSql
    /\ params' = EmptyMap
    /\ result' = v
    /\ pc' = "done"

\* GET /
Root ==
    /\ Arrive([route |-> "root"], "idle")
    /\ ReturnNow([kind |-> "message", body |-> [message |-> "NBA Betting API is running"]])
    /\ prevPage' = None

\* GET /games, up to the connect.
GetGames ==
    \E tid \in Opt(TeamIds), tname \in Opt(TeamNames), season \in Opt(Seasons),
       limit \in Limits :
        LET r == [route |-> "games", team_id |-> tid, team_name |-> tname,
                  season |-> season, limit |-> limit]
        IN  /\ Arrive(r, "idle")
            /\ IF GamesInvalid(r)
               THEN ReturnNow([kind |-> "error_payload",
                               body |-> [error |-> "Provide team_id or team_name"]])
               ELSE Built([route |-> "games", where |-> GamesWhere(r)], GamesParams(r))
            /\ prevPage' = None

\* GET /players/agg, up to the connect.
PlayerAgg ==
    \E pid \in AggPersonIds, season \in Opt(Seasons), n \in LastNs :
        LET r == [route |-> "agg", person_id |-> pid, season |-> season, last_n |-> n]
        IN  /\ Arrive(r, "idle")
            /\ Built([route |-> "agg", where |-> AggWhere(r)], AggParams(r))
            /\ prevPage' = None

\* GET /players/gamelogs, up to the connect.
PlayerGamelogs ==
    \E pid \in LogPersonIds, season \in Opt(Seasons), opp \in Opt(Opponents),
       home \in Opt(BOOLEAN), gt \in Opt(GameTypes),
       limit \in Limits, offset \in Offsets :
        LET r == [route |-> "gamelogs", person_id |-> pid, season |-> season,
                  opponent |-> opp, home |-> home, game_type |-> gt,
                  limit |-> limit, offset |-> offset]
        IN  /\ Arrive(r, "idle")
            /\ Built([route |-> "gamelogs", where |-> LogsWhere(r)], LogsParams(r))
            /\ prevPage' = None

\* A paging client asks /players/gamelogs for the page after the one it got:
\* the same filters and limit, offset advanced by limit.
NextPage ==
    /\ pc = "done"
    /\ req.route = "gamelogs"
    /\ result.kind = "list"
    /\ req.limit > 0
    /\ req.offset + req.limit <= MaxOffset
    /\ LET r == [req EXCEPT !.offset = req.offset + req.limit]
       IN  /\ Arrive(r, "done")
           /\ Built([route |-> "gamelogs", where |-> LogsWhere(r)], LogsParams(r))
    /\ prevPage' = Some([req |-> req, rows |-> result.body])

\* GET /players/search, up to the connect.
PlayersSearch ==
    \E q \in Queries, limit \in Limits :
        LET r == [route |-> "search", q |-> q, limit |-> limit]
        IN  /\ Arrive(r, "idle")
            /\ Built([route |-> "search", where |-> <<>>], SearchParams(r))
            /\ prevPage' = None

\* engine.connect() hands out a connection.
Connect ==
    /\ pc = "built"
    /\ held' = held + 1
    /\ acquired' = acquired + 1
    /\ pc' = "connected"
    /\ UNCHANGED <<stats, req, sql, params, queries, matched, ranked, rows,
                   result, prevPage>>

\* engine.connect() raises (the database is unreachable): the error
\* propagates out of the handler.
ConnectFail ==
    /\ pc = "built"
    /\ result' = ServerError
    /\ pc' = "done"
    /\ UNCHANGED <<stats, req, sql, params, held, acquired, queries, matched,
                   ranked, rows, prevPage>>

\* FROM ... WHERE ...: the rows the statement selects.
Selected(s, p, st) ==
    CASE s.route = "games" -> Matches(Games, s.where, p)
      [] s.route = "agg" -> Matches(Joined(st), s.where, p)
      [] s.route = "gamelogs" -> Matches(st, s.where, p)
      [] s.route = "search" ->
            {SearchRecord(pl) : pl \in {x \in Players : ILike(FullName(x), p["q"])}}

\* ORDER BY ...: the orders in which the database may produce the rows.
Orders(route, m) ==
    CASE route = "games" -> OrderingsDesc(m)
      [] route = "agg" -> RankOrders(m)
      [] route = "gamelogs" -> OrderingsDesc(m)
      [] route = "search" -> NameOrderings(m)

\* SELECT list, LIMIT and OFFSET: what .mappings() yields.
Fetch(route, rk, p) ==
    CASE route = "games" -> MapSeq(Page(rk, 0, p["limit"]), GameRecord)
      [] route = "agg" -> <<AggRow(rk, p["n"])>>
      [] route = "gamelogs" -> MapSeq(Page(rk, p["offset"], p["limit"]), LogRecord)
      [] route = "search" -> Page(rk, 0, p["limit"])

\* conn.execute(text(sql), params) succeeds: every placeholder is bound.
Execute ==
    /\ pc = "connected"
    /\ Placeholders(sql) \subseteq DOMAIN params
    /\ matched' = Selected(sql, params, stats)
    /\ ranked' \in Orders(sql.route, matched')
    /\ rows' = Fetch(sql.route, ranked', params)
    /\ queries' = queries + 1
    /\ pc' = "fetched"
    /\ UNCHANGED <<stats, req, sql, params, held, acquired, result, prevPage>>

\* conn.execute raises (an unbound placeholder, or the database fails).
ExecuteFail ==
    /\ pc = "connected"
    /\ queries' = queries + 1
    /\ pc' = "raised"
    /\ UNCHANGED <<stats, req, sql, params, held, acquired, matched, ranked,
                   rows, result, prevPage>>

\* What the handler returns from inside the with block.
Response(route, rws) ==
    IF route = "agg" THEN [kind |-> "object", body |-> AggReturn(rws)]
    ELSE [kind |-> "list", body |-> rws]

\* Connections held after the with block is left by return.
HeldAfterReturn(h) == h - 1

\* Connections held after the with block is left by an exception.
HeldAfterRaise_Leak(h) == h
HeldAfterRaise(h) == h - 1

\* return ...: the with block releases the connection.
Return ==
    /\ pc = "fetched"
    /\ result' = Response(sql.route, rows)
    /\ held' = HeldAfterReturn(held)
    /\ pc' = "done"
    /\ UNCHANGED <<stats, req, sql, params, acquired, queries, matched, ranked,
                   rows, prevPage>>

\* The exception leaves the with block, which releases the connection, and
\* propagates to the framework.
Propagate ==
    /\ pc = "raised"
    /\ result' = ServerError
    /\ held' = HeldAfterRaise(held)
    /\ pc' = "done"
    /\ UNCHANGED <<stats, req, sql, params, acquired, queries, matched, ranked,
                   rows, prevPage>>

\* The response has been sent; the next request can be served.
Respond ==
    /\ pc = "done"
    /\ pc' = "idle"
    /\ req' = [route |-> "none"]
    /\ sql' = NoSql
    /\ params' = EmptyMap
    /\ acquired' = 0
    /\ queries' = 0
    /\ matched' = {}
    /\ ranked' = <<>>
    /\ rows' = <<>>
    /\ result' = NoResult
    /\ prevPage' = None
    /\ UNCHANGED <<stats, held>>

Next ==
    \/ Respond
    \/ Root
    \/ GetGames
    \/ PlayerAgg
    \/ PlayerGamelogs
    \/ NextPage
    \/ PlayersSearch
    \/ Connect
    \/ ConnectFail
    \/ Execute
    \/ ExecuteFail
    \/ Return
    \/ Propagate

Spec == Init /\ [][Next]_vars

----------------------------------------------------------------------------
\* Properties.

\* C1: a /games request with neither team_id nor team_name set, whatever its
\* season and limit, ends with the error payload {"error": ...} returned as
\* an ordinary value: not a list of game records, not a propagated error,
\* and without the database being touched.
C1_NoTeamIsInvalidRequest ==
    (pc = "done" /\ req.route = "games"
        /\ req.team_id = None /\ req.team_name = None)
    => /\ result.kind = "error_payload"
       /\ DOMAIN result.body = {"error"}
       /\ acquired = 0
       /\ queries = 0

C1_Witness ==
    /\ pc = "done" /\ req.route = "games"
    /\ req.team_id = None /\ req.team_name = None
    /\ req.season # None /\ req.limit = 1
    /\ result.kind = "error_payload"

\* C10: whenever a statement has been assembled, the named placeholders of
\* its text are exactly the keys of the bound-parameter map (:start and :end
\* occur iff "start" and "end" are bound, which is iff season was given; :tid
\* iff "tid" is bound), and the WHERE list of /games is not empty.
C10_PlaceholdersMatchParams ==
    sql.route # "none"
    => /\ Placeholders(sql) = DOMAIN params
       /\ sql.route = "games" => sql.where # <<>>
       /\ sql.route \in {"games", "agg", "gamelogs"}
            => /\ ({"start", "end"} \subseteq DOMAIN params) <=> (req.season # None)
               /\ ({"start", "end"} \cap DOMAIN params = {}) <=> (req.season = None)
       /\ sql.route = "games" => (("tid" \in DOMAIN params) <=> TruthyInt(req.team_id))

C10_Witness ==
    /\ pc = "fetched"
    /\ sql.route = "agg"
    /\ DOMAIN params = {"pid", "n", "start", "end"}
    /\ Len(sql.where) = 2

\* C8 as stated: every completed request has acquired one connection and
\* executed exactly one statement, and holds no connection.
C8_EveryRequestOneQuery ==
    pc = "done" => (acquired = 1 /\ queries = 1 /\ held = 0)

\* C8 amended: a request acquires at most one connection and executes at
\* most one statement, only on a connection it holds; the connection is held
\* exactly from the connect to the exit of the with block, by return or by
\* exception; a request that returns rows acquired one connection and ran one
\* statement; "/" and the rejected /games request acquire none and run none;
\* a completed request holds no connection.
C8_ScopedConnection ==
    /\ held = (IF pc \in {"connected", "fetched", "raised"} THEN 1 ELSE 0)
    /\ acquired <= 1
    /\ queries <= acquired
    /\ pc \in {"connected", "fetched", "raised"} => acquired = 1
    /\ pc \in {"fetched", "raised"} => queries = 1
    /\ pc = "done"
        => /\ held = 0
           /\ result.kind \in {"list", "object"} => (acquired = 1 /\ queries = 1)
           /\ result.kind \in {"message", "error_payload"}
                => (acquired = 0 /\ queries = 0)

C8_Witness ==
    /\ pc = "done"
    /\ result = ServerError
    /\ acquired = 1
    /\ queries = 1
    /\ held = 0

\* The rows request r selects, by the statement its handler assembles.
RowsFor(r) ==
    CASE r.route = "games" -> Matches(Games, GamesWhere(r), GamesParams(r))
      [] r.route = "agg" -> Matches(Joined(stats), AggWhere(r), AggParams(r))
      [] r.route = "gamelogs" -> Matches(stats, LogsWhere(r), LogsParams(r))

\* C2: in /games, /players/agg and /players/gamelogs a season S keeps, of the
\* rows the other filters select, exactly those dated in the half-open
\* window [S-10-01, (S+1)-07-01): a row dated S-10-01 is kept, a row dated
\* (S+1)-07-01 is dropped; without season the statement has no date clause
\* and drops no row for its date.
C2_SeasonWindowHalfOpen ==
    (pc = "fetched" /\ req.route \in {"games", "agg", "gamelogs"})
    => LET others == RowsFor([req EXCEPT !.season = None])
       IN  IF req.season = None
           THEN /\ matched = others
                /\ \A i \in DOMAIN sql.where :
                        sql.where[i] \notin {SeasonClause, PsSeasonClause}
           ELSE LET S == req.season[1]
                IN  /\ matched = {row \in others :
                                    /\ MkDate(S, 10, 1) <= row.game_date
                                    /\ row.game_date < MkDate(S + 1, 7, 1)}
                    /\ \A row \in others :
                        /\ row.game_date = MkDate(S, 10, 1) => row \in matched
                        /\ row.game_date = MkDate(S + 1, 7, 1) => row \notin matched

C2_Witness ==
    /\ pc = "fetched"
    /\ req.route = "gamelogs"
    /\ req.season = Some(2023)
    /\ \E row \in matched : row.game_date = MkDate(2023, 10, 1)
    /\ \E row \in RowsFor([req EXCEPT !.season = None]) :
            row.game_date = MkDate(2024, 7, 1) /\ row \notin matched

RECURSIVE SeqSum(_)
SeqSum(v) == IF v = <<>> THEN 0 ELSE Head(v) + SeqSum(Tail(v))

\* The average of a sequence of values: None for no value, else <<sum, count>>.
AvgOf(v) == IF v = <<>> THEN None ELSE <<SeqSum(v), Len(v)>>

\* The values of one statistic along a sequence of rows.
ColumnOf(rk, stat) ==
    [i \in DOMAIN rk |->
        CASE stat = "pts" -> rk[i].points
          [] stat = "reb" -> rk[i].rebounds_total
          [] stat = "ast" -> rk[i].assists
          [] stat = "pra" -> rk[i].points + rk[i].rebounds_total + rk[i].assists]

StatNames == {"pts", "reb", "ast", "pra"}

LastNField(row, stat) ==
    CASE stat = "pts" -> row.last_n_pts [] stat = "reb" -> row.last_n_reb
      [] stat = "ast" -> row.last_n_ast [] stat = "pra" -> row.last_n_pra

SeasonField(row, stat) ==
    CASE stat = "pts" -> row.season_pts [] stat = "reb" -> row.season_reb
      [] stat = "ast" -> row.season_ast [] stat = "pra" -> row.season_pra

\* C3: /players/agg ranks the filtered rows of the player by recency (every
\* filtered row once, rank 1 the latest game_date) and computes both
\* aggregates from that one row set: each last_n_* is the average over the
\* rows of rank <= last_n, each season_* the average over all of them; with
\* no more than last_n rows the recent average is over all available rows,
\* so it equals the season average, and its divisor is the number of rows
\* there are, never last_n.
C3_RecentAndSeasonAverages ==
    (pc = "fetched" /\ req.route = "agg")
    => LET n == req.last_n
           k == Min(n, Len(ranked))
           row == rows[1]
       IN  /\ matched = {x \in Joined(stats) :
                            /\ x.person_id = req.person_id
                            /\ req.season # None =>
                                /\ MkDate(req.season[1], 10, 1) <= x.game_date
                                /\ x.game_date < MkDate(req.season[1] + 1, 7, 1)}
           /\ Len(ranked) = Cardinality(matched)
           /\ {ranked[i] : i \in DOMAIN ranked} = matched
           /\ \A i, j \in DOMAIN ranked :
                i < j => ranked[i].game_date >= ranked[j].game_date
           /\ Len(rows) = 1
           /\ \A stat \in StatNames :
                /\ LastNField(row, stat) = AvgOf(SubSeq(ColumnOf(ranked, stat), 1, k))
                /\ SeasonField(row, stat) = AvgOf(ColumnOf(ranked, stat))
                /\ Len(ranked) <= n => LastNField(row, stat) = SeasonField(row, stat)
                /\ LastNField(row, stat) # None => LastNField(row, stat)[2] = k

\* Player 2 has games of 30, 20 and 10 points, 30 the most recent: with
\* last_n = 2 and no season, last_n_pts = 50/2 = 25 and season_pts = 60/3 = 20.
C3_Witness ==
    /\ pc = "fetched"
    /\ req.route = "agg"
    /\ req.person_id = 2
    /\ req.season = None
    /\ req.last_n = 2
    /\ [i \in 1..3 |-> ranked[i].points] = <<30, 20, 10>>
    /\ rows[1].last_n_pts = <<50, 2>>
    /\ rows[1].season_pts = <<60, 3>>

\* C4 as stated: when no row matches, /players/agg returns the empty object.
C4_EmptyObjectWhenNoRows ==
    (pc = "done" /\ req.route = "agg" /\ result.kind = "object" /\ matched = {})
    => DOMAIN result.body = {}

InSeason(row, season) ==
    season # None =>
        /\ MkDate(season[1], 10, 1) <= row.game_date
        /\ row.game_date < MkDate(season[1] + 1, 7, 1)

\* Request r of /players/gamelogs with every optional filter but f dropped.
OnlyFilter(r, f) ==
    [route |-> "gamelogs", person_id |-> r.person_id,
     limit |-> r.limit, offset |-> r.offset,
     season |-> IF f = "season" THEN r.season ELSE None,
     opponent |-> IF f = "opponent" THEN r.opponent ELSE None,
     home |-> IF f = "home" THEN r.home ELSE None,
     game_type |-> IF f = "game_type" THEN r.game_type ELSE None]

LogFilters == {"season", "opponent", "home", "game_type"}

\* C6 as stated: a filter constrains the rows iff it is supplied.
C6_SuppliedFilterAlwaysConstrains ==
    (pc = "fetched" /\ req.route = "gamelogs")
    => matched = {row \in stats :
                    /\ row.person_id = req.person_id
                    /\ InSeason(row, req.season)
                    /\ req.opponent # None => row.opponent_team_name = req.opponent[1]
                    /\ req.home # None => row.home = req.home[1]
                    /\ req.game_type # None => row.game_type = req.game_type[1]}

\* C6 amended: the rows /players/gamelogs matches are the intersection of the
\* rows matched with each filter alone; season and home (false included)
\* constrain whenever supplied, opponent and game_type whenever supplied
\* non-empty; an absent filter, and an opponent or game_type supplied as the
\* empty string, constrains nothing.
C6_FiltersAreAnded ==
    (pc = "fetched" /\ req.route = "gamelogs")
    => /\ matched = {row \in stats :
                    /\ row.person_id = req.person_id
                    /\ InSeason(row, req.season)
                    /\ TruthyStr(req.opponent) => row.opponent_team_name = req.opponent[1]
                    /\ req.home # None => row.home = req.home[1]
                    /\ TruthyStr(req.game_type) => row.game_type = req.game_type[1]}
       /\ matched = {row \in stats :
                        \A f \in LogFilters : row \in RowsFor(OnlyFilter(req, f))}

C6_Witness ==
    /\ pc = "fetched"
    /\ req.route = "gamelogs"
    /\ req.season = Some(2023)
    /\ req.opponent = Some("Lakers")
    /\ req.home = None
    /\ req.game_type = None
    /\ matched # {}
    /\ matched # RowsFor(OnlyFilter(req, "season"))
    /\ matched # RowsFor(OnlyFilter(req, "opponent"))

\* C7 as stated: team_id and team_name each filter whenever supplied.
C7_SuppliedTeamFiltersAnded ==
    (pc = "fetched" /\ req.route = "games")
    => matched = {g \in Games :
                    /\ InSeason(g, req.season)
                    /\ req.team_id # None =>
                        (g.home_team_id = req.team_id[1] \/ g.away_team_id = req.team_id[1])
                    /\ req.team_name # None =>
                        (g.home_team_name = req.team_name[1]
                            \/ g.away_team_name = req.team_name[1])}

\* C7 amended: a game matches the team_id filter iff team_id is its home or
\* its away team id, the team_name filter iff team_name is its home or its
\* away team name; a non-zero team_id and a non-empty team_name given
\* together are ANDed; a team_id of 0 or an empty team_name filters nothing.
C7_TeamFiltersAnded ==
    (pc = "fetched" /\ req.route = "games")
    => matched = {g \in Games :
                    /\ InSeason(g, req.season)
                    /\ TruthyInt(req.team_id) =>
                        (g.home_team_id = req.team_id[1] \/ g.away_team_id = req.team_id[1])
                    /\ TruthyStr(req.team_name) =>
                        (g.home_team_name = req.team_name[1]
                            \/ g.away_team_name = req.team_name[1])}

C7_Witness ==
    /\ pc = "fetched"
    /\ req.route = "games"
    /\ req.team_id = Some(10)
    /\ req.team_name = Some("Lakers")
    /\ req.season = None
    /\ \E g \in matched : g.away_team_id = 10 /\ g.home_team_name = "Lakers"
    /\ \E g \in matched : g.home_team_id = 10 /\ g.away_team_name = "Lakers"
    /\ \E g \in Games \ matched : g.home_team_id = 10
    /\ \E g \in Games \ matched : g.away_team_name = "Lakers"

\* C5 as stated: a /players/gamelogs page holds the rows at positions
\* K+1 .. K+L of the matching rows ordered by game_date descending, and the
\* page after it (offset K+L) continues it: the two pages share no row and
\* together are the rows at positions K+1 .. K+2L, none skipped.
C5_ConsecutivePagesPartition ==
    (pc = "done" /\ req.route = "gamelogs" /\ result.kind = "list")
    => /\ result.body = MapSeq(Page(ranked, req.offset, req.limit), LogRecord)
       /\ prevPage # None =>
            LET prev == prevPage[1]
            IN  /\ \A i \in DOMAIN prev.rows, j \in DOMAIN result.body :
                        prev.rows[i] # result.body[j]
                /\ prev.rows \o result.body
                     = MapSeq(Page(ranked, prev.req.offset, 2 * req.limit), LogRecord)

\* str contains sub as a substring, compared without regard to case.
ContainsCI(str, sub) ==
    \E i \in 0..(Len(str) - Len(sub)) :
        \A j \in 1..Len(sub) : Lower(str[i + j]) = Lower(sub[j])

\* C9 as stated: /players/search returns exactly the players whose full name
\* contains q as a case-insensitive substring, in full-name order, at most
\* limit of them.
C9_SearchIsSubstringMatch ==
    (pc = "done" /\ req.route = "search" /\ result.kind = "list")
    => /\ matched = {SearchRecord(pl) :
                        pl \in {x \in Players : ContainsCI(FullName(x), req.q)}}
       /\ Len(result.body) = Min(req.limit, Cardinality(matched))
       /\ \A i \in DOMAIN result.body : result.body[i] \in matched
       /\ \A i, j \in DOMAIN result.body :
            i < j => /\ TextLE(result.body[i].player_name, result.body[j].player_name)
                     /\ result.body[i] # result.body[j]

====
